---------------------------- MODULE Spec2Model ----------------------------
(***************************************************************************)
(* The EFI boot entry manager of ovirt.node.utils.system (class EFI):      *)
(* the command builder _efibootmgr, the listing parser of list_entries,    *)
(* and add_entry / list_entries / remove_entry run against a firmware      *)
(* boot table that other processes may change at any time.                 *)
(*                                                                         *)
(* A Python string is a sequence of one-character strings, so that the     *)
(* regular expression of list_entries is matched character by character.   *)
(***************************************************************************)
EXTENDS Integers, Sequences, FiniteSets, TLC

VARIABLES
    table,      \* the firmware boot table: the set of boot entries
    pc,         \* "idle", or "remove_checked" between remove_entry's two invocations
    call,       \* the operation being executed, or the last one executed
    invs,       \* the Invoker calls of that operation: <<[argv, ok]>>
    stdout,     \* what the first Invoker call of the operation printed
    result,     \* how the operation ended: a return value or a raised error
    touched,    \* another process changed the table since the operation began
    input       \* the input of the pure-function specifications

vars == <<table, pc, call, invs, stdout, result, touched, input>>

-----------------------------------------------------------------------------
(* Characters and the fixed strings of the source.                         *)

Digit == {"0", "1", "2", "3", "4", "5", "6", "7", "8", "9"}
Lower == {"a", "b", "c", "d", "e", "f", "g", "h", "i", "j", "k", "l", "m",
          "n", "o", "p", "q", "r", "s", "t", "u", "v", "w", "x", "y", "z"}
Upper == {"A", "B", "C", "D", "E", "F", "G", "H", "I", "J", "K", "L", "M",
          "N", "O", "P", "Q", "R", "S", "T", "U", "V", "W", "X", "Y", "Z"}

\* the character class [0-9a-zA-Z] of the pattern
AlNum == Digit \cup Lower \cup Upper

TAB == "\t"
NL == "\n"

Boot == <<"B", "o", "o", "t">>
EFIBOOTMGR == <<"e", "f", "i", "b", "o", "o", "t", "m", "g", "r">>
OptVerbose == <<"v", "e", "r", "b", "o", "s", "e">>
OptCreate == <<"c", "r", "e", "a", "t", "e">>
OptLabel == <<"l", "a", "b", "e", "l">>
OptLoader == <<"l", "o", "a", "d", "e", "r">>
OptDisk == <<"d", "i", "s", "k">>
OptBootnum == <<"b", "o", "o", "t", "n", "u", "m">>
OptDeleteBootnum ==
    <<"d", "e", "l", "e", "t", "e", "-", "b", "o", "o", "t", "n", "u", "m">>

-----------------------------------------------------------------------------
(* Python values: None, a str, an int.                                     *)

None == [t |-> "None"]
PyStr(s) == [t |-> "str", s |-> s]
PyInt(n) == [t |-> "int", n |-> n]

DigitChar(d) == <<"0", "1", "2", "3", "4", "5", "6", "7", "8", "9">>[d + 1]

RECURSIVE decimal(_)
\* the decimal digits of a natural number
decimal(n) ==
    IF n < 10 THEN <<DigitChar(n)>>
    ELSE decimal(n \div 10) \o <<DigitChar(n % 10)>>

\* str(v): a str is itself, an int is written in decimal
str(v) ==
    IF v.t = "str" THEN v.s
    ELSE IF v.n < 0 THEN <<"-">> \o decimal(0 - v.n) ELSE decimal(v.n)

-----------------------------------------------------------------------------
(* The loop of the command builder, EFI._efibootmgr.                       *)

RECURSIVE build_cmd_truthy(_, _)
\* the loop with "if v:" for "if v is not None": an empty string and a
\* zero are dropped as None is
build_cmd_truthy(cmd, cmdargs) ==
    IF cmdargs = <<>>
    THEN cmd
    ELSE LET k == Head(cmdargs)[1]
             v == Head(cmdargs)[2]
         IN  build_cmd_truthy(
                 cmd \o <<(<<"-", "-">> \o k)>>
                     \o (IF v.t = "None" \/ v = PyStr(<<>>) \/ v = PyInt(0)
                         THEN <<>> ELSE <<str(v)>>),
                 Tail(cmdargs))

RECURSIVE build_cmd(_, _)
\* the loop "for k, v in cmdargs" appending to cmd
build_cmd(cmd, cmdargs) ==
    IF cmdargs = <<>>
    THEN cmd
    ELSE LET k == Head(cmdargs)[1]
             v == Head(cmdargs)[2]
         IN  build_cmd(cmd \o <<(<<"-", "-">> \o k)>>
                           \o (IF v.t # "None" THEN <<str(v)>> ELSE <<>>),
                       Tail(cmdargs))

-----------------------------------------------------------------------------
(* EFI.BootEntry and the parser of list_entries.                           *)

\* an EFI.BootEntry with its three attributes set from the groups of a match
BootEntry(groups) ==
    [bootnum |-> groups[1], label |-> groups[2], value |-> groups[3]]

RECURSIVE split(_, _)
\* s.split(sep) for a one-character separator
split(s, sep) ==
    IF \A i \in 1..Len(s) : s[i] # sep
    THEN <<s>>
    ELSE LET k == CHOOSE i \in 1..Len(s) :
                      s[i] = sep /\ \A j \in 1..(i - 1) : s[j] # sep
         IN  <<SubSeq(s, 1, k - 1)>> \o split(SubSeq(s, k + 1, Len(s)), sep)

RECURSIVE span(_, _, _)
\* a greedy repetition of "any character but c": how many characters of
\* line, from position i on, it consumes
span(line, i, c) ==
    IF i <= Len(line) /\ line[i] # c THEN 1 + span(line, i + 1, c) ELSE 0

\* the pattern with "." for the marker: ^Boot([0-9a-zA-Z]{4}). ([^\t]+)\t(.*)$
pat_search_any_marker(line) ==
    LET n == Len(line)
        lab == span(line, 11, TAB)
        tab == 11 + lab
        val == span(line, tab + 1, NL)
        end == tab + 1 + val
    IN  IF /\ n >= 10
           /\ SubSeq(line, 1, 4) = Boot
           /\ \A i \in 5..8 : line[i] \in AlNum
           /\ line[9] # NL
           /\ line[10] = " "
           /\ lab >= 1
           /\ tab <= n
           /\ line[tab] = TAB
           /\ (end = n + 1 \/ (end = n /\ line[n] = NL))
        THEN [matched |-> TRUE,
              groups |-> <<SubSeq(line, 5, 8), SubSeq(line, 11, tab - 1),
                           SubSeq(line, tab + 1, end - 1)>>]
        ELSE [matched |-> FALSE, groups |-> <<>>]

\* the pattern with the marker inside the label's group:
\* ^Boot([0-9a-zA-Z]{4})([\* ] [^\t]+)\t(.*)$
pat_search_marker_in_label(line) ==
    LET n == Len(line)
        lab == span(line, 11, TAB)
        tab == 11 + lab
        val == span(line, tab + 1, NL)
        end == tab + 1 + val
    IN  IF /\ n >= 10
           /\ SubSeq(line, 1, 4) = Boot
           /\ \A i \in 5..8 : line[i] \in AlNum
           /\ line[9] \in {"*", " "}
           /\ line[10] = " "
           /\ lab >= 1
           /\ tab <= n
           /\ line[tab] = TAB
           /\ (end = n + 1 \/ (end = n /\ line[n] = NL))
        THEN [matched |-> TRUE,
              groups |-> <<SubSeq(line, 5, 8), SubSeq(line, 9, tab - 1),
                           SubSeq(line, tab + 1, end - 1)>>]
        ELSE [matched |-> FALSE, groups |-> <<>>]

\* pat.search(line) for pat = ^Boot([0-9a-zA-Z]{4})[\* ] ([^\t]+)\t(.*)$
\* "^" anchors the search at the start of the string, "." is any character
\* but a newline, "$" is the end of the string or the place before a final
\* newline.
pat_search(line) ==
    LET n == Len(line)
        lab == span(line, 11, TAB)
        tab == 11 + lab
        val == span(line, tab + 1, NL)
        end == tab + 1 + val
    IN  IF /\ n >= 10
           /\ SubSeq(line, 1, 4) = Boot
           /\ \A i \in 5..8 : line[i] \in AlNum
           /\ line[9] \in {"*", " "}
           /\ line[10] = " "
           /\ lab >= 1
           /\ tab <= n
           /\ line[tab] = TAB
           /\ (end = n + 1 \/ (end = n /\ line[n] = NL))
        THEN [matched |-> TRUE,
              groups |-> <<SubSeq(line, 5, 8), SubSeq(line, 11, tab - 1),
                           SubSeq(line, tab + 1, end - 1)>>]
        ELSE [matched |-> FALSE, groups |-> <<>>]

RECURSIVE parse_lines(_)
\* the loop of list_entries over the lines of the output
parse_lines(ls) ==
    IF ls = <<>>
    THEN <<>>
    ELSE LET match == pat_search(Head(ls))
         IN  (IF match.matched THEN <<BootEntry(match.groups)>> ELSE <<>>)
                 \o parse_lines(Tail(ls))

\* what list_entries returns for the output lines of the tool
list_entries_parse(lines) == parse_lines(split(lines, NL))

-----------------------------------------------------------------------------
(* BootEntry comparison.                                                   *)

to_tuple(self) == <<self.bootnum, self.label, self.value>>

\* BootEntry.__cmp__: the truth value of the comparison of the two tuples
BootEntry_cmp(self, other) == to_tuple(self) = to_tuple(other)

\* int(b) of a Python bool
bool_int(b) == IF b THEN 1 ELSE 0

\* "other_entry == entry": BootEntry defines no __eq__, so the interpreter
\* calls __cmp__ and takes the objects as equal when its result is 0. The
\* result is a bool, an int in Python: True is 1, False is 0.
BootEntry_eq(self, other) == bool_int(BootEntry_cmp(self, other)) = 0

\* the loop of remove_entry that sets entry_exists
entry_exists(entries, entry) ==
    \E i \in 1..Len(entries) : BootEntry_eq(entries[i], entry)

-----------------------------------------------------------------------------
(* The firmware boot table and the external tool.                          *)

\* how many boot numbers the firmware has
MaxBootNum == 2

BootNumOf(i) == <<"0", "0", "0", DigitChar(i)>>
BootNums == {BootNumOf(i) : i \in 1..MaxBootNum}
Labels == {<<"F">>, <<"W">>}
Loaders == {<<"g">>, <<"s">>}
Disks == {<<"d">>, <<"e">>}

Entries == [bootnum : BootNums, label : Labels, value : Loaders]

\* a boot table holds at most one entry per boot number
Tables ==
    {t \in SUBSET Entries :
        \A a \in t, b \in t : a.bootnum = b.bootnum => a = b}

Header ==
    <<"B", "o", "o", "t", "C", "u", "r", "r", "e", "n", "t", ":", " ",
      "0", "0", "0", "1">>

\* one line of the listing: "Boot%s%s %s\t%s"
EntryLine(num, marker, lbl, val) ==
    Boot \o num \o marker \o <<" ">> \o lbl \o <<TAB>> \o val

RECURSIVE ListingFrom(_, _, _)
\* the entry lines of the boot numbers i.. of a table, the first one active
ListingFrom(tbl, i, first) ==
    IF i > MaxBootNum
    THEN <<>>
    ELSE IF \E e \in tbl : e.bootnum = BootNumOf(i)
         THEN LET e == CHOOSE x \in tbl : x.bootnum = BootNumOf(i)
              IN  EntryLine(e.bootnum, IF first THEN <<"*">> ELSE <<" ">>,
                            e.label, e.value)
                      \o <<NL>> \o ListingFrom(tbl, i + 1, FALSE)
         ELSE ListingFrom(tbl, i + 1, first)

\* the verbose listing the tool prints: a header, then the entries
Listing(tbl) == Header \o <<NL>> \o ListingFrom(tbl, 1, TRUE)

HasArg(argv, opt) == \E i \in 1..Len(argv) : argv[i] = <<"-", "-">> \o opt

ArgOf(argv, opt) ==
    argv[1 + CHOOSE i \in 1..Len(argv) : argv[i] = <<"-", "-">> \o opt]

FreeNums(tbl) == {i \in 1..MaxBootNum : \A e \in tbl : e.bootnum # BootNumOf(i)}

\* The tool run on a table: whether it exits with 0, what it prints, and the
\* table it leaves. "fine" is FALSE when it fails for a reason of its own.
Tool(argv, tbl, fine) ==
    IF ~fine
    THEN [ok |-> FALSE, stdout |-> <<>>, table |-> tbl]
    ELSE IF HasArg(argv, OptCreate)
    THEN IF FreeNums(tbl) = {}
         THEN [ok |-> FALSE, stdout |-> <<>>, table |-> tbl]
         ELSE LET i == CHOOSE x \in FreeNums(tbl) : \A y \in FreeNums(tbl) : x <= y
                  new == tbl \cup {[bootnum |-> BootNumOf(i),
                                    label |-> ArgOf(argv, OptLabel),
                                    value |-> ArgOf(argv, OptLoader)]}
              IN  [ok |-> TRUE, stdout |-> Listing(new), table |-> new]
    ELSE IF HasArg(argv, OptDeleteBootnum)
    THEN IF \A e \in tbl : e.bootnum # ArgOf(argv, OptBootnum)
         THEN [ok |-> FALSE, stdout |-> <<>>, table |-> tbl]
         ELSE LET new == {e \in tbl : e.bootnum # ArgOf(argv, OptBootnum)}
              IN  [ok |-> TRUE, stdout |-> Listing(new), table |-> new]
    ELSE [ok |-> TRUE, stdout |-> Listing(tbl), table |-> tbl]

\* EFI._call: process.check_output(cmd), which raises when the tool fails
_call(cmd, tbl, fine) == Tool(cmd, tbl, fine)

\* EFI._efibootmgr: the command of cmdargs, handed to _call
_efibootmgr(cmdargs, tbl, fine) ==
    LET cmd == build_cmd(<<EFIBOOTMGR>>, cmdargs)
    IN  [argv |-> cmd] @@ _call(cmd, tbl, fine)

-----------------------------------------------------------------------------
(* The methods of EFI. Each is given the table the tool runs on and        *)
(* whether the tool is fine, and yields the Invoker calls it made, the     *)
(* table left, the last output, and how it ended.                          *)

Return(v) == [kind |-> "return", value |-> v]
Raise(e) == [kind |-> "raise", error |-> e]
Running == [kind |-> "none"]

\* add_entry that lists the entries after creating one, to see it is there
add_entry_verified(lbl, loader_filename, dsk, tbl, fine) ==
    LET cmdargs == <<<<OptVerbose, None>>,
                     <<OptCreate, None>>,
                     <<OptLabel, PyStr(lbl)>>,
                     <<OptLoader, PyStr(loader_filename)>>,
                     <<OptDisk, PyStr(dsk)>>>>
        out == _efibootmgr(cmdargs, tbl, fine)
        seen == _efibootmgr(<<<<OptVerbose, None>>>>, out.table, TRUE)
    IN  IF out.ok
        THEN [invs |-> <<[argv |-> out.argv, ok |-> TRUE],
                         [argv |-> seen.argv, ok |-> TRUE]>>,
              table |-> out.table,
              stdout |-> seen.stdout,
              result |-> Return(TRUE)]
        ELSE [invs |-> <<[argv |-> out.argv, ok |-> FALSE]>>,
              table |-> out.table,
              stdout |-> out.stdout,
              result |-> Raise("CalledProcessError")]

add_entry(lbl, loader_filename, dsk, tbl, fine) ==
    LET cmdargs == <<<<OptVerbose, None>>,
                     <<OptCreate, None>>,
                     <<OptLabel, PyStr(lbl)>>,
                     <<OptLoader, PyStr(loader_filename)>>,
                     <<OptDisk, PyStr(dsk)>>>>
        out == _efibootmgr(cmdargs, tbl, fine)
    IN  [invs |-> <<[argv |-> out.argv, ok |-> out.ok]>>,
         table |-> out.table,
         stdout |-> out.stdout,
         result |-> IF out.ok THEN Return(TRUE)
                    ELSE Raise("CalledProcessError")]

\* list_entries that takes a failure of the tool for an empty listing
list_entries_swallowing(tbl, fine) ==
    LET out == _efibootmgr(<<<<OptVerbose, None>>>>, tbl, fine)
    IN  [invs |-> <<[argv |-> out.argv, ok |-> out.ok]>>,
         table |-> out.table,
         stdout |-> out.stdout,
         result |-> Return(list_entries_parse(out.stdout))]

\* list_entries that keeps the entries it parsed when the manager was made,
\* of a table that was empty then, and returns them on every call
list_entries_cached(tbl, fine) ==
    LET out == _efibootmgr(<<<<OptVerbose, None>>>>, {}, TRUE)
    IN  [invs |-> <<>>,
         table |-> tbl,
         stdout |-> out.stdout,
         result |-> Return(list_entries_parse(out.stdout))]

list_entries(tbl, fine) ==
    LET out == _efibootmgr(<<<<OptVerbose, None>>>>, tbl, fine)
    IN  [invs |-> <<[argv |-> out.argv, ok |-> out.ok]>>,
         table |-> out.table,
         stdout |-> out.stdout,
         result |-> IF out.ok THEN Return(list_entries_parse(out.stdout))
                    ELSE Raise("CalledProcessError")]

\* remove_entry up to its raise or its debug line: the listing and the check
remove_entry_check(entry, tbl, fine) ==
    LET listed == list_entries(tbl, fine)
    IN  [invs |-> listed.invs,
         table |-> listed.table,
         stdout |-> listed.stdout,
         result |-> IF listed.result.kind = "raise" THEN listed.result
                    ELSE IF ~entry_exists(listed.result.value, entry)
                    THEN Raise("RuntimeError")
                    ELSE Running]

\* remove_entry from its debug line on: the delete command
remove_entry_delete(entry, tbl, fine) ==
    LET out == _efibootmgr(<<<<OptVerbose, None>>,
                             <<OptBootnum, PyStr(entry.bootnum)>>,
                             <<OptDeleteBootnum, None>>>>, tbl, fine)
    IN  [invs |-> <<[argv |-> out.argv, ok |-> out.ok]>>,
         table |-> out.table,
         stdout |-> out.stdout,
         result |-> IF out.ok THEN Return(TRUE)
                    ELSE Raise("CalledProcessError")]

-----------------------------------------------------------------------------
(* The manager and the firmware as a state machine.                        *)

NoCall == [op |-> "none"]

Init ==
    /\ table \in Tables
    /\ pc = "idle"
    /\ call = NoCall
    /\ invs = <<>>
    /\ stdout = <<>>
    /\ result = Running
    /\ touched = FALSE
    /\ input = <<>>

AddEntry ==
    /\ pc = "idle"
    /\ \E lbl \in Labels, ldr \in Loaders, dsk \in Disks, fine \in BOOLEAN :
          \E r \in {add_entry(lbl, ldr, dsk, table, fine)} :
              /\ call' = [op |-> "add_entry", label |-> lbl,
                          loader_filename |-> ldr, disk |-> dsk]
              /\ invs' = r.invs
              /\ table' = r.table
              /\ stdout' = r.stdout
              /\ result' = r.result
    /\ touched' = FALSE
    /\ UNCHANGED <<pc, input>>

ListEntries ==
    /\ pc = "idle"
    /\ \E fine \in BOOLEAN :
          \E r \in {list_entries(table, fine)} :
              /\ call' = [op |-> "list_entries"]
              /\ invs' = r.invs
              /\ table' = r.table
              /\ stdout' = r.stdout
              /\ result' = r.result
    /\ touched' = FALSE
    /\ UNCHANGED <<pc, input>>

RemoveEntryCheck ==
    /\ pc = "idle"
    /\ \E entry \in Entries, fine \in BOOLEAN :
          \E r \in {remove_entry_check(entry, table, fine)} :
              /\ call' = [op |-> "remove_entry", entry |-> entry]
              /\ invs' = r.invs
              /\ table' = r.table
              /\ stdout' = r.stdout
              /\ result' = r.result
              /\ pc' = IF r.result = Running THEN "remove_checked" ELSE "idle"
    /\ touched' = FALSE
    /\ UNCHANGED input

RemoveEntryDelete ==
    /\ pc = "remove_checked"
    /\ \E fine \in BOOLEAN :
          \E r \in {remove_entry_delete(call.entry, table, fine)} :
              /\ invs' = invs \o r.invs
              /\ table' = r.table
              /\ result' = r.result
    /\ pc' = "idle"
    /\ UNCHANGED <<call, stdout, touched, input>>

\* another process changes the entry of one boot number, once per operation
ExternalChange ==
    /\ ~touched
    /\ \E t \in Tables :
          /\ t # table
          /\ \E n \in BootNums :
                {e \in t : e.bootnum # n} = {e \in table : e.bootnum # n}
          /\ table' = t
    /\ touched' = TRUE
    /\ UNCHANGED <<pc, call, invs, stdout, result, input>>

Next ==
    \/ AddEntry
    \/ ListEntries
    \/ RemoveEntryCheck
    \/ RemoveEntryDelete
    \/ ExternalChange

Spec == Init /\ [][Next]_vars

-----------------------------------------------------------------------------
(* list_entries on any output of the tool: the parser alone.               *)

\* The output is a line put together from parts, each right or wrong,
\* between what comes before it and after it.
PartPrefix == {Boot, <<"b", "o", "o", "t">>, <<" ">> \o Boot}
PartNum == {<<"0", "0", "0", "1">>, <<"0", "0", "a", "F">>,
            <<"0", "0", "-", "1">>, <<"0", "0", "1">>}
PartMarker == {<<"*">>, <<" ">>, <<"+">>, <<>>}
PartSep == {<<" ">>, <<>>}
PartLabel == {<<>>, <<"F">>, <<"F", " ", "d">>, <<"a", NL, "b">>}
PartTab == {<<TAB>>, <<>>}
PartValue == {<<>>, <<"v">>, <<"v", TAB, "w">>}
PartPre == {<<>>, Header \o <<NL>>,
            EntryLine(<<"0", "0", "0", "2">>, <<"*">>, <<"W">>, <<"s">>) \o <<NL>>}
PartPost == {<<>>, <<NL>>,
             <<NL>> \o EntryLine(<<"0", "0", "0", "3">>, <<" ">>, <<"U">>, <<>>) \o <<NL>>}

ParseInputs ==
    [pre : PartPre, prefix : PartPrefix, num : PartNum, marker : PartMarker,
     sep : PartSep, label : PartLabel, tab : PartTab, value : PartValue,
     post : PartPost]

Fedora == <<"F", "e", "d", "o", "r", "a">>
Windows == <<"W", "i", "n", "d", "o", "w", "s">>
FedoraGrub ==
    <<"/", "E", "F", "I", "/", "f", "e", "d", "o", "r", "a", "/",
      "g", "r", "u", "b", ".", "e", "f", "i">>
WindowsBootmgr ==
    <<"/", "E", "F", "I", "/", "w", "i", "n", "d", "o", "w", "s", "/",
      "b", "o", "o", "t", "m", "g", "r">>

\* "Boot0001* Fedora\t/EFI/fedora/grub.efi\nBoot0002  Windows\t/EFI/windows/bootmgr\n"
Scenario ==
    [pre |-> EntryLine(<<"0", "0", "0", "1">>, <<"*">>, Fedora, FedoraGrub) \o <<NL>>,
     prefix |-> Boot, num |-> <<"0", "0", "0", "2">>, marker |-> <<" ">>,
     sep |-> <<" ">>, label |-> Windows, tab |-> <<TAB>>,
     value |-> WindowsBootmgr, post |-> <<NL>>]

TextOf(in) ==
    in.pre \o in.prefix \o in.num \o in.marker \o in.sep \o in.label
        \o in.tab \o in.value \o in.post

InitParse ==
    /\ input \in ParseInputs \cup {Scenario}
    /\ table = {}
    /\ pc = "idle"
    /\ call = NoCall
    /\ invs = <<>>
    /\ stdout = <<>>
    /\ result = Running
    /\ touched = FALSE

\* list_entries when the tool prints the text of the input
ParseListing ==
    /\ pc = "idle"
    /\ call = NoCall
    /\ call' = [op |-> "list_entries"]
    /\ invs' = <<[argv |-> build_cmd(<<EFIBOOTMGR>>, <<<<OptVerbose, None>>>>),
                   ok |-> TRUE]>>
    /\ stdout' = TextOf(input)
    /\ result' = Return(list_entries_parse(TextOf(input)))
    /\ UNCHANGED <<table, pc, touched, input>>

NextParse == ParseListing

SpecParse == InitParse /\ [][NextParse]_vars

-----------------------------------------------------------------------------
(* _efibootmgr on any list of (option, value) pairs: the builder alone,    *)
(* with _call returning the command it is given, as in the doctest.        *)

\* how many pairs an argument list has at most
MaxArgs == 2

Foo == <<"F", "o", "o">>
ArgKeys == {OptVerbose, OptLabel, OptBootnum}
ArgValues == {None, PyStr(<<>>), PyStr(Foo), PyInt(42), PyInt(0 - 7)}

RECURSIVE SeqsUpTo(_, _)
SeqsUpTo(S, n) ==
    IF n = 0 THEN {<<>>}
    ELSE SeqsUpTo(S, n - 1)
             \cup {Append(q, x) : q \in {r \in SeqsUpTo(S, n - 1) : Len(r) = n - 1},
                                  x \in S}

InitBuild ==
    /\ input \in SeqsUpTo(ArgKeys \X ArgValues, MaxArgs)
    /\ table = {}
    /\ pc = "idle"
    /\ call = NoCall
    /\ invs = <<>>
    /\ stdout = <<>>
    /\ result = Running
    /\ touched = FALSE

Efibootmgr ==
    /\ pc = "idle"
    /\ call = NoCall
    /\ call' = [op |-> "_efibootmgr"]
    /\ \E r \in {_efibootmgr(input, table, TRUE)} :
          invs' = <<[argv |-> r.argv, ok |-> r.ok]>>
    /\ UNCHANGED <<table, pc, stdout, result, touched, input>>

NextBuild == Efibootmgr

SpecBuild == InitBuild /\ [][NextBuild]_vars

-----------------------------------------------------------------------------
(* What the claims speak of, said without the code's own loops.            *)

\* the lines of a text: the stretches between its newlines
NewlinesUpTo(text, p) == Cardinality({q \in 1..p : text[q] = NL})
LineCount(text) == 1 + NewlinesUpTo(text, Len(text))
LineOf(text, i) ==
    LET from == IF i = 1 THEN 1
                ELSE 1 + CHOOSE p \in 1..Len(text) :
                             text[p] = NL /\ NewlinesUpTo(text, p) = i - 1
        to == IF i = LineCount(text) THEN Len(text)
              ELSE (CHOOSE p \in 1..Len(text) :
                        text[p] = NL /\ NewlinesUpTo(text, p) = i) - 1
    IN  SubSeq(text, from, to)

\* the place of the TAB that ends the label of an entry line, 0 for a line
\* that is no entry line: Boot, four of [0-9a-zA-Z], "*" or a space, a
\* space, a label of one or more characters up to the first TAB
LabelEnd(line) ==
    IF /\ Len(line) >= 12
       /\ \A i \in 1..4 : line[i] = Boot[i]
       /\ \A i \in 5..8 : line[i] \in AlNum
       /\ line[9] \in {"*", " "}
       /\ line[10] = " "
       /\ line[11] # TAB
       /\ \E k \in 12..Len(line) : line[k] = TAB
    THEN CHOOSE k \in 12..Len(line) :
             line[k] = TAB /\ \A j \in 11..(k - 1) : line[j] # TAB
    ELSE 0

IsEntryLine(line) == LabelEnd(line) > 0

RecordOf(line) ==
    [bootnum |-> SubSeq(line, 5, 8),
     label |-> SubSeq(line, 11, LabelEnd(line) - 1),
     value |-> SubSeq(line, LabelEnd(line) + 1, Len(line))]

EntryLines(text) == {i \in 1..LineCount(text) : IsEntryLine(LineOf(text, i))}

\* C4: list_entries returns one record per line of the output that has the
\* shape Boot + 4 alphanumeric characters + ("*" or space) + space + a
\* non-empty label up to the first TAB + TAB + value, in the order of the
\* lines, nothing for any other line, and the empty list when no line has
\* the shape.
C4_OneRecordPerEntryLine ==
    (call.op = "list_entries" /\ result.kind = "return") =>
        LET got == result.value
            M == EntryLines(stdout)
        IN  /\ Len(got) = Cardinality(M)
            /\ \A i \in M :
                  got[Cardinality({m \in M : m <= i})] = RecordOf(LineOf(stdout, i))

\* the scenario of two entries is parsed to its two records
C4_Witness ==
    /\ call.op = "list_entries"
    /\ input = Scenario
    /\ result = Return(<<[bootnum |-> <<"0", "0", "0", "1">>, label |-> Fedora,
                          value |-> FedoraGrub],
                         [bootnum |-> <<"0", "0", "0", "2">>, label |-> Windows,
                          value |-> WindowsBootmgr]>>)

\* a line built as "Boot" + bootnum + marker + " " + label + TAB + value
\* from a 4-character alphanumeric bootnum, a marker "*" or " ", a non-empty
\* label without a TAB and a value without a newline
IsRoundTripInput(in) ==
    /\ in.pre = <<>> /\ in.post = <<>>
    /\ in.prefix = Boot
    /\ Len(in.num) = 4 /\ \A i \in 1..4 : in.num[i] \in AlNum
    /\ in.marker \in {<<"*">>, <<" ">>}
    /\ in.sep = <<" ">>
    /\ in.label # <<>> /\ \A i \in 1..Len(in.label) : in.label[i] # TAB
    /\ in.tab = <<TAB>>
    /\ \A i \in 1..Len(in.value) : in.value[i] # NL

RoundTrips(in) ==
    result = Return(<<[bootnum |-> in.num, label |-> in.label, value |-> in.value]>>)

\* C5 as stated: every such line is parsed to the one entry
\* (bootnum, label, value).
C5_RoundTripAnyLabel ==
    (call.op = "list_entries" /\ IsRoundTripInput(input)) => RoundTrips(input)

\* C5 amended: every such line whose label holds no newline either is
\* parsed to the one entry (bootnum, label, value); the marker is in none
\* of the fields.
C5_RoundTrip ==
    (/\ call.op = "list_entries"
     /\ IsRoundTripInput(input)
     /\ \A i \in 1..Len(input.label) : input.label[i] # NL) => RoundTrips(input)

\* a line with the marker "*", a label with a space and a value with a TAB
\* has made the round trip
C5_Witness ==
    /\ call.op = "list_entries"
    /\ IsRoundTripInput(input)
    /\ input.marker = <<"*">>
    /\ input.label = <<"F", " ", "d">>
    /\ input.value = <<"v", TAB, "w">>
    /\ RoundTrips(input)

\* the string form of the values the argument lists are made of
StringForm(v) ==
    CASE v = PyInt(42) -> <<"4", "2">>
      [] v = PyInt(0 - 7) -> <<"-", "7">>
      [] OTHER -> v.s

IsPresent(v) == v # None

\* where the option of the i-th pair stands in the argument vector: after
\* the tool's name, the options before it and their values
PlaceOf(cmdargs, i) ==
    1 + i + Cardinality({j \in 1..(i - 1) : IsPresent(cmdargs[j][2])})

\* C7: the argument vector of _efibootmgr is the tool's name, then for each
\* pair in the order given "--" + the option's name, followed by the string
\* form of the value exactly when the value is not None; nothing else.
C7_ArgumentVector ==
    (call.op = "_efibootmgr") =>
        LET cmd == invs[1].argv
            n == Len(input)
        IN  /\ Len(invs) = 1
            /\ cmd[1] = EFIBOOTMGR
            /\ Len(cmd) = PlaceOf(input, n + 1) - 1
            /\ \A i \in 1..n :
                  /\ cmd[PlaceOf(input, i)] = <<"-", "-">> \o input[i][1]
                  /\ IsPresent(input[i][2]) =>
                        cmd[PlaceOf(input, i) + 1] = StringForm(input[i][2])

\* the doctest: [("verbose", None), ("label", "Foo")] gives
\* ['efibootmgr', '--verbose', '--label', 'Foo']
C7_Witness ==
    /\ call.op = "_efibootmgr"
    /\ input = <<<<OptVerbose, None>>, <<OptLabel, PyStr(Foo)>>>>
    /\ invs[1].argv = <<EFIBOOTMGR, <<"-", "-">> \o OptVerbose,
                         <<"-", "-">> \o OptLabel, Foo>>

-----------------------------------------------------------------------------
(* The claims about add_entry, list_entries and remove_entry.              *)

Dashed(opt) == <<"-", "-">> \o opt

ListingArgv == <<EFIBOOTMGR, Dashed(OptVerbose)>>

DeleteArgv(num) ==
    <<EFIBOOTMGR, Dashed(OptVerbose), Dashed(OptBootnum), num,
      Dashed(OptDeleteBootnum)>>

IsDeleteArgv(argv) == \E i \in 1..Len(argv) : argv[i] = Dashed(OptDeleteBootnum)

SameFields(a, b) ==
    a.bootnum = b.bootnum /\ a.label = b.label /\ a.value = b.value

\* the entries of the listing the operation fetched
Listed == {RecordOf(LineOf(stdout, i)) : i \in EntryLines(stdout)}

\* remove_entry has fetched its listing
RemoveListed == call.op = "remove_entry" /\ invs[1].ok

\* C1: remove_entry(e) for an e with no structurally equal entry in the
\* listing it fetched ends with the not-found error and never calls the
\* Invoker with a delete command.
C1_UnlistedIsNotDeleted ==
    (RemoveListed /\ \A x \in Listed : ~SameFields(x, call.entry)) =>
        /\ pc = "idle" => result = Raise("RuntimeError")
        /\ \A i \in 1..Len(invs) : ~IsDeleteArgv(invs[i].argv)

\* C2: remove_entry(e) for an e structurally equal to an entry of the
\* listing does not raise the not-found error, issues after the listing the
\* one invocation [tool, --verbose, --bootnum, e.bootnum, --delete-bootnum],
\* and returns true when that invocation succeeds.
C2_ListedIsDeleted ==
    (RemoveListed /\ \E x \in Listed : SameFields(x, call.entry)) =>
        /\ result # Raise("RuntimeError")
        /\ pc = "idle" =>
              /\ Len(invs) = 2
              /\ invs[2].argv = DeleteArgv(call.entry.bootnum)
              /\ invs[2].ok => result = Return(TRUE)

\* C3: the comparison "other_entry == entry" of remove_entry's check is true
\* exactly when the two entries have the same bootnum, label and value.
C3_EqualIffSameFields ==
    RemoveListed =>
        \A x \in Listed : BootEntry_eq(x, call.entry) <=> SameFields(x, call.entry)

\* C6: add_entry issues the one invocation [tool, --verbose, --create,
\* --label, label, --loader, loader, --disk, disk] and returns true when it
\* does not fail; it issues no further invocation.
C6_AddEntryOneInvocation ==
    (call.op = "add_entry") =>
        /\ Len(invs) = 1
        /\ invs[1].argv = <<EFIBOOTMGR, Dashed(OptVerbose), Dashed(OptCreate),
                             Dashed(OptLabel), call.label,
                             Dashed(OptLoader), call.loader_filename,
                             Dashed(OptDisk), call.disk>>
        /\ invs[1].ok => result = Return(TRUE)

\* add_entry has returned true and the table holds the new entry
C6_Witness ==
    /\ call.op = "add_entry"
    /\ result = Return(TRUE)
    /\ \E e \in table : e.label = call.label /\ e.value = call.loader_filename

\* C8: an Invoker call that fails is the last call of its operation, and the
\* operation ends raising the Invoker's error: no true, no list of entries,
\* no second attempt, no later invocation, and no delete command after a
\* listing that failed.
C8_InvokerErrorPropagates ==
    \A i \in 1..Len(invs) :
        ~invs[i].ok =>
            /\ i = Len(invs)
            /\ pc = "idle"
            /\ result = Raise("CalledProcessError")

\* the listing of remove_entry has failed, for an entry the table holds
C8_Witness ==
    /\ call.op = "remove_entry"
    /\ call.entry \in table
    /\ invs = <<[argv |-> ListingArgv, ok |-> FALSE]>>
    /\ result = Raise("CalledProcessError")

\* C9: list_entries issues the one invocation [tool, --verbose], no other,
\* and returns the entries of that invocation's output: as long as no
\* other process has changed the table since, they are the entries of the
\* table, one each.
C9_ListEntriesIsFresh ==
    (call.op = "list_entries") =>
        /\ Len(invs) = 1
        /\ invs[1].argv = ListingArgv
        /\ invs[1].ok =>
              /\ result.kind = "return"
              /\ {result.value[i] : i \in 1..Len(result.value)} = Listed
              /\ ~touched =>
                    /\ Listed = table
                    /\ Len(result.value) = Cardinality(table)

\* list_entries has returned the two entries of a table of two
C9_Witness ==
    /\ call.op = "list_entries"
    /\ result.kind = "return"
    /\ Len(result.value) = 2
    /\ ~touched
    /\ \A e \in table : e.label = <<"W">>

\* C10: when no other process changes the table between the check and the
\* delete command of remove_entry, the table's entry with the boot number
\* the delete command names is the entry given, as the check observed it.
C10_DeletesTheEntryChecked ==
    (pc = "remove_checked" /\ ~touched) =>
        \E x \in table : SameFields(x, call.entry)

=============================================================================
